---- MODULE Spec2Model ----
(***************************************************************************)
(* Jam Digital ESP32-S3 (src/sketch.ino): a FreeRTOS clock with an alarm   *)
(* and an hourly strike.  Five contexts share two groups of state:         *)
(*   - the time of day (hourNow, minuteNow, secondNow), guarded by the     *)
(*     spinlock mux, written by timeTask and by the encoder ISR;           *)
(*   - the alarm state (alarmRinging, strikeRemaining), guarded by the     *)
(*     mutex dataMutex, written by timeTask, buzzerTask and buttonTask     *)
(*     and read by displayTask.                                            *)
(* alarmSem is the binary semaphore timeTask gives and buzzerTask takes.   *)
(*                                                                         *)
(* Every task is a record holding its position (pc) and the locals of its  *)
(* function, under the names the source gives them.  A portENTER_CRITICAL  *)
(* section is one atomic step.  A bounded xSemaphoreTake(dataMutex, n) is  *)
(* two actions: it succeeds when the mutex is free, and it may time out    *)
(* when another task holds the mutex.                                      *)
(***************************************************************************)
EXTENDS Integers, Sequences, FiniteSets, TLC

VARIABLES
    hourNow, minuteNow, secondNow,  \* the time of day                (33-35)
    strikeRemaining,                \* strikes still to play           (42)
    alarmRinging,                   \* the alarm flag                  (45)
    dataMutex,                      \* holder of the mutex, or "free"  (52)
    alarmSem,                       \* the binary semaphore's count    (53)
    lastClk,                        \* the encoder's last CLK level    (56)
    timeTask,                       \* pc and locals h, m, s, hh       (150)
    buzzerTask,                     \* pc, doAlarm, strikes, stillRinging (207)
    buttonTask,                     \* pc and the debounce window      (346)
    displayTask,                    \* pc and locals                   (296)
    buzzerPin,                      \* frequency on PIN_BUZZER, 0 = noTone
    startTime,                      \* the time of day at start
    ticks,                          \* one-second advances so far
    turns,                          \* the encoder's minute steps so far, in order
    alarmPasses,                    \* times the time of day became the alarm instant
    alarmRaises,                    \* times timeTask raised alarmSem for the alarm
    pendingRaises,                  \* raises of alarmSem not yet consumed
    hist                            \* what the bounded waits skipped and what
                                    \* the buzzer has played (see HistInit)

vars == << hourNow, minuteNow, secondNow,
           strikeRemaining, alarmRinging, dataMutex, alarmSem, lastClk,
           timeTask, buzzerTask, buttonTask, displayTask, buzzerPin,
           startTime, ticks, turns, alarmPasses, alarmRaises,
           pendingRaises, hist >>

timeVars  == << hourNow, minuteNow, secondNow >>
alarmVars == << strikeRemaining, alarmRinging >>
countVars == << startTime, ticks, turns, alarmPasses, alarmRaises,
               pendingRaises >>
histVars  == << countVars, hist >>

----------------------------------------------------------------------------
(* Bounds of the model *)

\* one-second advances a behaviour of Spec may take
MaxTicks == 2
\* encoder minute steps a behaviour of Spec may take
MaxAdjusts == 1

\* volume inputs the tasks sample in Spec: below, at and above the threshold
PotSamples == {49, 50, 4095}

----------------------------------------------------------------------------
(* Program constants *)

\* const int alarmHour, alarmMinute: the alarm is at 05:30
alarmHour == 5
alarmMinute == 30

POT_MIN_THRESHOLD == 50
BUZZER_FREQ_MIN == 800
BUZZER_FREQ_MAX == 3000
\* analogRead on the ESP32 is 12 bits wide
ADC_MAX == 4095

Levels == {"LOW", "HIGH"}

----------------------------------------------------------------------------
(* Pure helpers *)

\* Arduino's map(): integer arithmetic, the division truncating
map(x, in_min, in_max, out_min, out_max) ==
    ((x - in_min) * (out_max - out_min)) \div (in_max - in_min) + out_min

\* the advance with the hour wrapping at 12
AdvanceSecondHalfDay(h, m, s) ==
    LET s1 == s + 1 IN
    IF s1 >= 60
    THEN LET m1 == m + 1 IN
         IF m1 >= 60 THEN << (h + 1) % 12, 0, 0 >> ELSE << h, m1, 0 >>
    ELSE << h, m, s1 >>

\* timeTask's one-second advance with carry (lines 160-168)
AdvanceSecond(h, m, s) ==
    LET s1 == s + 1 IN
    IF s1 >= 60
    THEN LET m1 == m + 1 IN
         IF m1 >= 60 THEN << (h + 1) % 24, 0, 0 >> ELSE << h, m1, 0 >>
    ELSE << h, m, s1 >>

\* the right turn without the carry into the hour
EncoderForwardNoCarry(h, m) == << h, m + 1 >>

\* encoderISR, right turn: minuteNow++ with carry (lines 87-88)
EncoderForward(h, m) ==
    LET m1 == m + 1 IN
    IF m1 >= 60 THEN << (h + 1) % 24, 0 >> ELSE << h, m1 >>

\* the left turn with the borrow leaving the hour alone
EncoderBackwardSameHour(h, m) ==
    LET m1 == m - 1 IN
    IF m1 < 0 THEN << h, 59 >> ELSE << h, m1 >>

\* encoderISR, left turn: minuteNow-- with borrow (lines 90-91)
EncoderBackward(h, m) ==
    LET m1 == m - 1 IN
    IF m1 < 0 THEN << (h + 23) % 24, 59 >> ELSE << h, m1 >>

\* encoderISR's effect on the time of day for the levels it reads (85-94)
EncoderTime(h, m, s, last, clk, dt) ==
    IF clk # last /\ clk = "HIGH"
    THEN LET hm == IF dt = "LOW" THEN EncoderForward(h, m)
                                 ELSE EncoderBackward(h, m)
         IN  << hm[1], hm[2], 0 >>
    ELSE << h, m, s >>

\* the strike count timeTask derives from the hour it re-reads (191-193)
StrikeCount(hh) == IF hh = 0 THEN 12 ELSE hh

\* the striking loop's tone without the mute threshold
StrikeToneNoMute(potVal) ==
    map(potVal, 0, ADC_MAX, BUZZER_FREQ_MIN, BUZZER_FREQ_MAX)

\* the frequency the striking loop puts on the buzzer, 0 for noTone (227-232)
StrikeTone(potVal) ==
    IF potVal < POT_MIN_THRESHOLD
    THEN 0
    ELSE map(potVal, 0, ADC_MAX, BUZZER_FREQ_MIN, BUZZER_FREQ_MAX)

\* the frequency the ringing loop puts on the buzzer, 0 for noTone (259-264)
RingTone(potVal) ==
    IF potVal < POT_MIN_THRESHOLD
    THEN 0
    ELSE map(potVal, 0, ADC_MAX, BUZZER_FREQ_MIN, BUZZER_FREQ_MAX)

\* the give of a counting semaphore
SemGiveCounting(sem) == sem + 1

\* a give that leaves the semaphore as it is
SemGiveDropped(sem) == sem

\* xSemaphoreGive on a binary semaphore: a pending signal stays one signal
SemGive(sem) == IF sem = 0 THEN 1 ELSE sem

\* a take that does not wait for the holder
MutexTakeNoWait(task) == dataMutex' = task

\* a take that also succeeds against the lowest-priority holder
MutexTakeFromDisplay(task) ==
    dataMutex \in {"free", "display"} /\ dataMutex' = task

\* xSemaphoreTake(dataMutex, n) succeeding: the mutex is free
MutexTake(task) == dataMutex = "free" /\ dataMutex' = task

\* a wait for dataMutex that never runs out
MutexTimeoutNever(task) == FALSE

\* xSemaphoreTake(dataMutex, n) returning pdFALSE: another task held the
\* mutex for the whole bounded wait
MutexTimeout(task) == dataMutex \notin {"free", task}

\* xSemaphoreGive(dataMutex) by its holder
MutexGive(task) == dataMutex = task /\ dataMutex' = "free"

AtAlarm(h, m, s) == h = alarmHour /\ m = alarmMinute /\ s = 0

----------------------------------------------------------------------------
(* Initial states *)

\* locals of a task that is outside the block declaring them
TimeIdle    == [pc |-> "poll", h |-> 0, m |-> 0, s |-> 0, hh |-> 0]
BuzzerIdle  == [pc |-> "wait", doAlarm |-> FALSE, strikes |-> 0,
                stillRinging |-> FALSE, potVal |-> 0]
DisplayIdle == [pc |-> "copyTime", isAlarm |-> FALSE, strikes |-> 0]

\* A scenario is a state the sketch is in between two ticks, every task at
\* rest: the time of day, and what timeTask raised earlier that buzzerTask
\* has not taken up yet (ringing, strikes, and sem for the give of alarmSem
\* still pending).
Fresh(st) == [start |-> st, ringing |-> FALSE, strikes |-> 0, sem |-> 0]

\* the state setup() leaves behind: the clock started at 05:29:50
SketchScenario == Fresh(<< 5, 29, 50 >>)

\* the alarm raised at 05:30:00 and not answered: at 13:59:59 alarmRinging is
\* still set (nothing but a stop press clears it) and the give of line 182
\* is still pending
AlarmUnanswered ==
    [start |-> << 13, 59, 59 >>, ringing |-> TRUE, strikes |-> 0, sem |-> 1]

\* the strike armed at 01:00:00 and never played, buzzerTask's wait of line
\* 217 having run out: strikeRemaining is still 1 at 05:29:59 (the guard of
\* line 188 arms no other count on top of it) and alarmSem is consumed.  It
\* belongs to the runs in which waits run out
StrikesUnplayed ==
    [start |-> << 5, 29, 59 >>, ringing |-> FALSE, strikes |-> 1, sem |-> 0]

\* Scenarios of Spec: the sketch's own; the alarm one second ahead; an hour
\* boundary one second ahead; an hour boundary one second ahead with the
\* alarm unanswered
Scenarios ==
    { SketchScenario,
      Fresh(<< 5, 29, 59 >>),
      Fresh(<< 0, 59, 59 >>),
      AlarmUnanswered }

\* The record of a run so far:
\*   alarmSkip, strikeSkip  the tick at which timeTask's wait for dataMutex
\*                          ran out in the alarm check, in the strike check
\*                          (0: never)
\*   armed                  the count timeTask armed, until buzzerTask has
\*                          left the striking loop that plays it
\*   pulses                 strike pulses buzzerTask has started in the
\*                          striking loop it is in
\*   wakeRinging, wakeStrikes  alarmRinging and strikeRemaining at the moment
\*                          buzzerTask consumed alarmSem
\*   wakeRead               the read of lines 218-219 took place
\*   drained                the striking loop played at least wakeStrikes
\*                          pulses
\*   stopped                a stop press cleared the alarm state
\* The last five describe the wake-up buzzerTask is in, and are reset when it
\* goes back to wait for alarmSem.
HistInit ==
    [alarmSkip |-> 0, strikeSkip |-> 0, armed |-> 0, pulses |-> 0,
     wakeRinging |-> FALSE, wakeStrikes |-> 0, wakeRead |-> FALSE,
     drained |-> FALSE, stopped |-> FALSE]

\* the record once buzzerTask is at pc: leaving the striking loop (the test of
\* line 224 failing) closes the count of its pulses
AfterStrikeLoop(h, pc) ==
    IF pc = "ringTake"
    THEN [h EXCEPT !.drained = h.pulses >= h.wakeStrikes,
                   !.pulses = 0, !.armed = 0]
    ELSE h

\* the state of a scenario: what setup() leaves behind (lines 100-147), the
\* time of day moved on to the scenario's, and what timeTask has raised on
\* the way (lines 178, 182, 194, 196)
InitFor(sc) ==
    /\ hourNow = sc.start[1]
    /\ minuteNow = sc.start[2]
    /\ secondNow = sc.start[3]
    /\ startTime = sc.start
    /\ strikeRemaining = sc.strikes
    /\ alarmRinging = sc.ringing
    /\ dataMutex = "free"
    /\ alarmSem = sc.sem
    /\ timeTask = TimeIdle
    /\ buzzerTask = BuzzerIdle
    /\ buttonTask = [pc |-> "poll", elapsed |-> FALSE]
    /\ displayTask = DisplayIdle
    /\ buzzerPin = 0
    /\ ticks = 0
    /\ turns = << >>
    /\ alarmPasses = IF sc.ringing THEN 1 ELSE 0
    /\ alarmRaises = IF sc.ringing THEN 1 ELSE 0
    /\ pendingRaises = sc.sem
    /\ hist = HistInit

\* line 112 reads lastClk from the encoder line
Init ==
    /\ \E sc \in Scenarios : InitFor(sc)
    /\ lastClk \in Levels

----------------------------------------------------------------------------
(* timeTask (lines 150-204) *)

\* the strike check matching every second of minute 0
StrikeCheckWholeMinute(m, s) == IF m = 0 THEN "strikeTake" ELSE "poll"

\* where timeTask goes once the alarm check is behind it: the hourly strike
\* check of line 186, or the end of the iteration
StrikeCheck(m, s) == IF m = 0 /\ s = 0 THEN "strikeTake" ELSE "poll"

\* lines 154-175: a second has elapsed; advance the time of day under mux,
\* copy it to h, m, s and evaluate the alarm check on the copy
TimeTickWithin(limit) ==
    /\ timeTask.pc = "poll"
    /\ ticks < limit
    /\ LET t == AdvanceSecond(hourNow, minuteNow, secondNow) IN
       /\ hourNow' = t[1]
       /\ minuteNow' = t[2]
       /\ secondNow' = t[3]
       /\ timeTask' = [timeTask EXCEPT
               !.h = t[1], !.m = t[2], !.s = t[3],
               !.pc = IF t[1] = alarmHour /\ t[2] = alarmMinute /\ t[3] = 0
                      THEN "alarmTake"
                      ELSE StrikeCheck(t[2], t[3])]
       /\ alarmPasses' = IF AtAlarm(t[1], t[2], t[3])
                         THEN alarmPasses + 1 ELSE alarmPasses
    /\ ticks' = ticks + 1
    /\ UNCHANGED << alarmVars, dataMutex, alarmSem,
                    lastClk, buzzerTask, buttonTask, displayTask, buzzerPin,
                    startTime, turns, alarmRaises, pendingRaises, hist >>

\* line 177: the mutex is obtained
TimeAlarmTake ==
    /\ timeTask.pc = "alarmTake"
    /\ MutexTake("time")
    /\ timeTask' = [timeTask EXCEPT !.pc = "alarmSet"]
    /\ UNCHANGED << timeVars, alarmVars, alarmSem,
                    lastClk, buzzerTask, buttonTask, displayTask, buzzerPin,
                    histVars >>

\* line 177: the wait of 10 ticks ran out; the flag is left as it is
TimeAlarmTimeout ==
    /\ timeTask.pc = "alarmTake"
    /\ MutexTimeout("time")
    /\ timeTask' = [timeTask EXCEPT !.pc = "alarmGive"]
    /\ hist' = [hist EXCEPT !.alarmSkip = ticks]
    /\ UNCHANGED << timeVars, alarmVars, dataMutex,
                    alarmSem, lastClk, buzzerTask, buttonTask, displayTask,
                    buzzerPin, countVars >>

\* lines 178-179: set the flag and give the mutex back
TimeAlarmSet ==
    /\ timeTask.pc = "alarmSet"
    /\ alarmRinging' = TRUE
    /\ MutexGive("time")
    /\ timeTask' = [timeTask EXCEPT !.pc = "alarmGive"]
    /\ UNCHANGED << timeVars, strikeRemaining,
                    alarmSem, lastClk, buzzerTask, buttonTask, displayTask,
                    buzzerPin, histVars >>

\* line 182, then the check of line 186 on the copy
TimeAlarmGive ==
    /\ timeTask.pc = "alarmGive"
    /\ alarmSem' = SemGive(alarmSem)
    /\ alarmRaises' = alarmRaises + 1
    /\ pendingRaises' = pendingRaises + 1
    /\ timeTask' = IF StrikeCheck(timeTask.m, timeTask.s) = "poll"
                   THEN TimeIdle
                   ELSE [timeTask EXCEPT !.pc = "strikeTake"]
    /\ UNCHANGED << timeVars, alarmVars, dataMutex,
                    lastClk, buzzerTask, buttonTask, displayTask, buzzerPin,
                    startTime, ticks, turns, alarmPasses, hist >>

\* line 187: the mutex is obtained
TimeStrikeTake ==
    /\ timeTask.pc = "strikeTake"
    /\ MutexTake("time")
    /\ timeTask' = [timeTask EXCEPT !.pc = "strikeGuard"]
    /\ UNCHANGED << timeVars, alarmVars, alarmSem,
                    lastClk, buzzerTask, buttonTask, displayTask, buzzerPin,
                    histVars >>

\* line 187: the wait ran out; the strike check is skipped
TimeStrikeTimeout ==
    /\ timeTask.pc = "strikeTake"
    /\ MutexTimeout("time")
    /\ timeTask' = TimeIdle
    /\ hist' = [hist EXCEPT !.strikeSkip = ticks]
    /\ UNCHANGED << timeVars, alarmVars, dataMutex,
                    alarmSem, lastClk, buzzerTask, buttonTask, displayTask,
                    buzzerPin, countVars >>

\* the guard without its test of alarmRinging
StrikeGuardNoRinging == strikeRemaining = 0

\* the guard of line 188, evaluated by the holder of the mutex
StrikeGuard == strikeRemaining = 0 /\ ~alarmRinging

\* the guard holding and the mutex given back before the re-read of the hour
TimeStrikeGuardReleases ==
    /\ timeTask.pc = "strikeGuard"
    /\ StrikeGuard
    /\ MutexGive("time")
    /\ timeTask' = [timeTask EXCEPT !.pc = "strikeHour"]
    /\ UNCHANGED << timeVars, alarmVars, alarmSem,
                    lastClk, buzzerTask, buttonTask, displayTask, buzzerPin,
                    histVars >>

\* line 188, the guard holding: on to the re-read of the hour
TimeStrikeGuard ==
    /\ timeTask.pc = "strikeGuard"
    /\ dataMutex = "time"
    /\ StrikeGuard
    /\ timeTask' = [timeTask EXCEPT !.pc = "strikeHour"]
    /\ UNCHANGED << timeVars, alarmVars, dataMutex,
                    alarmSem, lastClk, buzzerTask, buttonTask, displayTask,
                    buzzerPin, histVars >>

\* line 188, the guard failing: straight to the give of line 198
TimeStrikeSkip ==
    /\ timeTask.pc = "strikeGuard"
    /\ ~StrikeGuard
    /\ MutexGive("time")
    /\ timeTask' = TimeIdle
    /\ UNCHANGED << timeVars, alarmVars, alarmSem,
                    lastClk, buzzerTask, buttonTask, displayTask, buzzerPin,
                    histVars >>

\* lines 190-192: the hour is read again, under mux, the mutex still held
TimeStrikeHour ==
    /\ timeTask.pc = "strikeHour"
    /\ dataMutex = "time"
    /\ timeTask' = [timeTask EXCEPT !.hh = hourNow % 12, !.pc = "strikeSet"]
    /\ UNCHANGED << timeVars, alarmVars, dataMutex,
                    alarmSem, lastClk, buzzerTask, buttonTask, displayTask,
                    buzzerPin, histVars >>

\* lines 193-196: arm the strikes and notify the buzzer task
TimeStrikeSet ==
    /\ timeTask.pc = "strikeSet"
    /\ dataMutex = "time"
    /\ strikeRemaining' = StrikeCount(timeTask.hh)
    /\ alarmSem' = SemGive(alarmSem)
    /\ pendingRaises' = pendingRaises + 1
    /\ timeTask' = [timeTask EXCEPT !.pc = "strikeRelease"]
    /\ hist' = [hist EXCEPT !.armed = strikeRemaining']
    /\ UNCHANGED << timeVars, alarmRinging, dataMutex,
                    lastClk, buzzerTask, buttonTask, displayTask, buzzerPin,
                    startTime, ticks, turns, alarmPasses, alarmRaises >>

\* line 198, the strikes armed
TimeStrikeRelease ==
    /\ timeTask.pc = "strikeRelease"
    /\ MutexGive("time")
    /\ timeTask' = TimeIdle
    /\ UNCHANGED << timeVars, alarmVars, alarmSem,
                    lastClk, buzzerTask, buttonTask, displayTask, buzzerPin,
                    histVars >>

----------------------------------------------------------------------------
(* encoderISR (lines 80-97) *)

\* one run of the handler, reading clk and dt from the two encoder lines;
\* at most `limit` of the runs of a behaviour step the minute
EncoderRead(clk, dt, limit) ==
    LET t == EncoderTime(hourNow, minuteNow, secondNow, lastClk, clk, dt)
        steps == clk # lastClk /\ clk = "HIGH"
    IN
    /\ steps => Len(turns) < limit
    /\ hourNow' = t[1]
    /\ minuteNow' = t[2]
    /\ secondNow' = t[3]
    /\ lastClk' = clk
    /\ turns' = IF steps
                THEN Append(turns, IF dt = "LOW" THEN "forward" ELSE "backward")
                ELSE turns
    /\ alarmPasses' = IF steps /\ AtAlarm(t[1], t[2], t[3])
                      THEN alarmPasses + 1 ELSE alarmPasses
    /\ UNCHANGED << alarmVars, dataMutex, alarmSem,
                    timeTask, buzzerTask, buttonTask, displayTask, buzzerPin,
                    startTime, ticks, alarmRaises, pendingRaises, hist >>

EncoderISR(limit) ==
    \E clk \in Levels, dt \in Levels : EncoderRead(clk, dt, limit)

----------------------------------------------------------------------------
(* buzzerTask (lines 207-281) *)

\* the striking loop left with one strike still to play
StrikeLoopSkipsLast(strikes) == IF strikes > 1 THEN "strikeTone" ELSE "ringTake"

\* the test of the striking loop (line 224) and, once it fails, the bounded
\* take of line 251
StrikeLoop(strikes) == IF strikes > 0 THEN "strikeTone" ELSE "ringTake"

\* the test of the ringing loop (line 256) and, once it fails, line 278
RingLoop(stillRinging) == IF stillRinging THEN "ringTone" ELSE "silence"

\* line 213: block on alarmSem until it is given, and consume it
BuzzerWake ==
    /\ buzzerTask.pc = "wait"
    /\ alarmSem = 1
    /\ alarmSem' = 0
    /\ pendingRaises' = 0
    /\ buzzerTask' = [BuzzerIdle EXCEPT !.pc = "readTake"]
    /\ hist' = [hist EXCEPT !.wakeRinging = alarmRinging,
                            !.wakeStrikes = strikeRemaining,
                            !.wakeRead = FALSE,
                            !.pulses = 0,
                            !.drained = FALSE,
                            !.stopped = FALSE]
    /\ UNCHANGED << timeVars, alarmVars, dataMutex,
                    lastClk, timeTask, buttonTask, displayTask, buzzerPin,
                    startTime, ticks, turns, alarmPasses, alarmRaises >>

\* line 217: the mutex is obtained
BuzzerReadTake ==
    /\ buzzerTask.pc = "readTake"
    /\ MutexTake("buzzer")
    /\ buzzerTask' = [buzzerTask EXCEPT !.pc = "read"]
    /\ UNCHANGED << timeVars, alarmVars, alarmSem,
                    lastClk, timeTask, buttonTask, displayTask, buzzerPin,
                    histVars >>

\* line 217: the wait of 50 ticks ran out; doAlarm and strikes keep their
\* initial values
BuzzerReadTimeout ==
    /\ buzzerTask.pc = "readTake"
    /\ MutexTimeout("buzzer")
    /\ buzzerTask' = [buzzerTask EXCEPT !.pc = StrikeLoop(buzzerTask.strikes)]
    /\ hist' = AfterStrikeLoop(hist, buzzerTask'.pc)
    /\ UNCHANGED << timeVars, alarmVars, dataMutex,
                    alarmSem, lastClk, timeTask, buttonTask, displayTask,
                    buzzerPin, countVars >>

\* lines 218-220
BuzzerRead ==
    /\ buzzerTask.pc = "read"
    /\ MutexGive("buzzer")
    /\ buzzerTask' = [buzzerTask EXCEPT
            !.doAlarm = alarmRinging,
            !.strikes = strikeRemaining,
            !.pc = StrikeLoop(strikeRemaining)]
    /\ hist' = AfterStrikeLoop([hist EXCEPT !.wakeRead = TRUE],
                               buzzerTask'.pc)
    /\ UNCHANGED << timeVars, alarmVars, alarmSem,
                    lastClk, timeTask, buttonTask, displayTask, buzzerPin,
                    countVars >>

\* lines 225-232: one strike starts, its pitch taken from the potentiometer
BuzzerStrikeTone(pots) ==
    /\ buzzerTask.pc = "strikeTone"
    /\ \E potVal \in pots :
          /\ buzzerPin' = StrikeTone(potVal)
          /\ buzzerTask' = [buzzerTask EXCEPT
                  !.potVal = potVal, !.pc = "strikeOn"]
    /\ hist' = [hist EXCEPT !.pulses = hist.pulses + 1]
    /\ UNCHANGED << timeVars, alarmVars, dataMutex,
                    alarmSem, lastClk, timeTask, buttonTask, displayTask,
                    countVars >>

\* lines 234-236: after 300 ms the tone stops, then 700 ms of silence; the
\* potVal of this iteration is out of scope once the iteration is over
BuzzerStrikeOff ==
    /\ buzzerTask.pc = "strikeOn"
    /\ buzzerPin' = 0
    /\ buzzerTask' = [buzzerTask EXCEPT !.potVal = 0, !.pc = "decTake"]
    /\ UNCHANGED << timeVars, alarmVars, dataMutex,
                    alarmSem, lastClk, timeTask, buttonTask, displayTask,
                    histVars >>

\* line 239: the mutex is obtained
BuzzerDecTake ==
    /\ buzzerTask.pc = "decTake"
    /\ MutexTake("buzzer")
    /\ buzzerTask' = [buzzerTask EXCEPT !.pc = "dec"]
    /\ UNCHANGED << timeVars, alarmVars, alarmSem,
                    lastClk, timeTask, buttonTask, displayTask, buzzerPin,
                    histVars >>

\* lines 243-246: the wait ran out; only the local count goes down
BuzzerDecTimeout ==
    /\ buzzerTask.pc = "decTake"
    /\ MutexTimeout("buzzer")
    /\ buzzerTask' = [buzzerTask EXCEPT
            !.strikes = buzzerTask.strikes - 1,
            !.pc = StrikeLoop(buzzerTask.strikes - 1)]
    /\ hist' = AfterStrikeLoop(hist, buzzerTask'.pc)
    /\ UNCHANGED << timeVars, alarmVars, dataMutex,
                    alarmSem, lastClk, timeTask, buttonTask, displayTask,
                    buzzerPin, countVars >>

\* the decrement taking two strikes off
StrikeDecrementTwice(n) == IF n > 1 THEN n - 2 ELSE 0

\* the decrement without the test of line 240
StrikeDecrementUnguarded(n) == n - 1

\* line 240
StrikeDecrement(n) == IF n > 0 THEN n - 1 ELSE n

\* lines 240-242
BuzzerDec ==
    /\ buzzerTask.pc = "dec"
    /\ MutexGive("buzzer")
    /\ strikeRemaining' = StrikeDecrement(strikeRemaining)
    /\ buzzerTask' = [buzzerTask EXCEPT
            !.strikes = strikeRemaining',
            !.pc = StrikeLoop(strikeRemaining')]
    /\ hist' = AfterStrikeLoop(hist, buzzerTask'.pc)
    /\ UNCHANGED << timeVars, alarmRinging, alarmSem,
                    lastClk, timeTask, buttonTask, displayTask, buzzerPin,
                    countVars >>

\* line 251: the mutex is obtained
BuzzerRingTake ==
    /\ buzzerTask.pc = "ringTake"
    /\ MutexTake("buzzer")
    /\ buzzerTask' = [buzzerTask EXCEPT !.pc = "ringRead"]
    /\ UNCHANGED << timeVars, alarmVars, alarmSem,
                    lastClk, timeTask, buttonTask, displayTask, buzzerPin,
                    histVars >>

\* line 251: the wait of 50 ticks ran out; stillRinging stays false
BuzzerRingTimeout ==
    /\ buzzerTask.pc = "ringTake"
    /\ MutexTimeout("buzzer")
    /\ buzzerTask' = [buzzerTask EXCEPT
            !.stillRinging = FALSE, !.pc = RingLoop(FALSE)]
    /\ UNCHANGED << timeVars, alarmVars, dataMutex,
                    alarmSem, lastClk, timeTask, buttonTask, displayTask,
                    buzzerPin, histVars >>

\* lines 252-253
BuzzerRingRead ==
    /\ buzzerTask.pc = "ringRead"
    /\ MutexGive("buzzer")
    /\ buzzerTask' = [buzzerTask EXCEPT
            !.stillRinging = alarmRinging, !.pc = RingLoop(alarmRinging)]
    /\ UNCHANGED << timeVars, alarmVars, alarmSem,
                    lastClk, timeTask, buttonTask, displayTask, buzzerPin,
                    histVars >>

\* lines 257-264: one ring pulse starts
BuzzerRingTone(pots) ==
    /\ buzzerTask.pc = "ringTone"
    /\ \E potVal \in pots :
          /\ buzzerPin' = RingTone(potVal)
          /\ buzzerTask' = [buzzerTask EXCEPT
                  !.potVal = potVal, !.pc = "ringOn"]
    /\ UNCHANGED << timeVars, alarmVars, dataMutex,
                    alarmSem, lastClk, timeTask, buttonTask, displayTask,
                    histVars >>

\* lines 266-268: after 250 ms the tone stops, then 200 ms of silence
BuzzerRingOff ==
    /\ buzzerTask.pc = "ringOn"
    /\ buzzerPin' = 0
    /\ buzzerTask' = [buzzerTask EXCEPT !.potVal = 0, !.pc = "ringReTake"]
    /\ UNCHANGED << timeVars, alarmVars, dataMutex,
                    alarmSem, lastClk, timeTask, buttonTask, displayTask,
                    histVars >>

\* line 270: the mutex is obtained
BuzzerRingReTake ==
    /\ buzzerTask.pc = "ringReTake"
    /\ MutexTake("buzzer")
    /\ buzzerTask' = [buzzerTask EXCEPT !.pc = "ringReRead"]
    /\ UNCHANGED << timeVars, alarmVars, alarmSem,
                    lastClk, timeTask, buttonTask, displayTask, buzzerPin,
                    histVars >>

\* the wait of line 270 running out and ending the ringing loop
BuzzerRingReTimeoutLeaves ==
    /\ buzzerTask.pc = "ringReTake"
    /\ MutexTimeout("buzzer")
    /\ buzzerTask' = [buzzerTask EXCEPT
            !.stillRinging = FALSE, !.pc = RingLoop(FALSE)]
    /\ UNCHANGED << timeVars, alarmVars, dataMutex,
                    alarmSem, lastClk, timeTask, buttonTask, displayTask,
                    buzzerPin, histVars >>

\* lines 273-275: the wait of 20 ticks ran out; stillRinging keeps its value
\* and the loop goes round again
BuzzerRingReTimeout ==
    /\ buzzerTask.pc = "ringReTake"
    /\ MutexTimeout("buzzer")
    /\ buzzerTask' = [buzzerTask EXCEPT !.pc = RingLoop(buzzerTask.stillRinging)]
    /\ UNCHANGED << timeVars, alarmVars, dataMutex,
                    alarmSem, lastClk, timeTask, buttonTask, displayTask,
                    buzzerPin, histVars >>

\* the give of line 272 without the re-read of line 271
BuzzerRingReReadStale ==
    /\ buzzerTask.pc = "ringReRead"
    /\ MutexGive("buzzer")
    /\ buzzerTask' = [buzzerTask EXCEPT !.pc = RingLoop(buzzerTask.stillRinging)]
    /\ UNCHANGED << timeVars, alarmVars, alarmSem,
                    lastClk, timeTask, buttonTask, displayTask, buzzerPin,
                    histVars >>

\* lines 271-272
BuzzerRingReRead ==
    /\ buzzerTask.pc = "ringReRead"
    /\ MutexGive("buzzer")
    /\ buzzerTask' = [buzzerTask EXCEPT
            !.stillRinging = alarmRinging, !.pc = RingLoop(alarmRinging)]
    /\ UNCHANGED << timeVars, alarmVars, alarmSem,
                    lastClk, timeTask, buttonTask, displayTask, buzzerPin,
                    histVars >>

\* line 278, then back to the wait of line 213
BuzzerSilence ==
    /\ buzzerTask.pc = "silence"
    /\ buzzerPin' = 0
    /\ buzzerTask' = BuzzerIdle
    /\ hist' = [HistInit EXCEPT !.alarmSkip = hist.alarmSkip,
                                !.strikeSkip = hist.strikeSkip,
                                !.armed = hist.armed]
    /\ UNCHANGED << timeVars, alarmVars, dataMutex,
                    alarmSem, lastClk, timeTask, buttonTask, displayTask,
                    countVars >>

----------------------------------------------------------------------------
(* buttonTask (lines 346-366) *)

\* buttonTask.elapsed stands for (now - lastPress) > deb: it is false from
\* the moment lastPress is set to now (line 361) until more than 200 ms have
\* gone by, which `late` reports at a later poll.

\* lines 352-354: one poll of the stop button (active low)
ButtonPoll ==
    /\ buttonTask.pc = "poll"
    /\ \E pressed \in BOOLEAN, late \in BOOLEAN :
          LET open == buttonTask.elapsed \/ late IN
          buttonTask' = [pc |-> IF pressed /\ open THEN "take" ELSE "poll",
                         elapsed |-> open]
    /\ UNCHANGED << timeVars, alarmVars, dataMutex,
                    alarmSem, lastClk, timeTask, buzzerTask, displayTask,
                    buzzerPin, histVars >>

\* line 356: the mutex is obtained
ButtonTake ==
    /\ buttonTask.pc = "take"
    /\ MutexTake("button")
    /\ buttonTask' = [buttonTask EXCEPT !.pc = "clearRinging"]
    /\ UNCHANGED << timeVars, alarmVars, alarmSem,
                    lastClk, timeTask, buzzerTask, displayTask, buzzerPin,
                    histVars >>

\* line 356: the wait of 50 ticks ran out; the press is dropped, and line 361
\* still restarts the debounce window
ButtonTimeout ==
    /\ buttonTask.pc = "take"
    /\ MutexTimeout("button")
    /\ buttonTask' = [pc |-> "poll", elapsed |-> FALSE]
    /\ UNCHANGED << timeVars, alarmVars, dataMutex,
                    alarmSem, lastClk, timeTask, buzzerTask, displayTask,
                    buzzerPin, histVars >>

\* line 357
ButtonClearRinging ==
    /\ buttonTask.pc = "clearRinging"
    /\ dataMutex = "button"
    /\ alarmRinging' = FALSE
    /\ buttonTask' = [buttonTask EXCEPT !.pc = "clearStrikes"]
    /\ UNCHANGED << timeVars, strikeRemaining,
                    dataMutex, alarmSem, lastClk, timeTask, buzzerTask,
                    displayTask, buzzerPin, histVars >>

\* line 358
ButtonClearStrikes ==
    /\ buttonTask.pc = "clearStrikes"
    /\ dataMutex = "button"
    /\ strikeRemaining' = 0
    /\ buttonTask' = [buttonTask EXCEPT !.pc = "give"]
    /\ hist' = [hist EXCEPT !.stopped = TRUE]
    /\ UNCHANGED << timeVars, alarmRinging,
                    dataMutex, alarmSem, lastClk, timeTask, buzzerTask,
                    displayTask, buzzerPin, countVars >>

\* lines 359-361
ButtonGive ==
    /\ buttonTask.pc = "give"
    /\ MutexGive("button")
    /\ buttonTask' = [pc |-> "poll", elapsed |-> FALSE]
    /\ UNCHANGED << timeVars, alarmVars, alarmSem,
                    lastClk, timeTask, buzzerTask, displayTask, buzzerPin,
                    histVars >>

----------------------------------------------------------------------------
(* displayTask (lines 296-343) and copyTime (lines 73-77) *)

\* lines 301-302: copyTime, one critical section under mux.  The copy only
\* feeds the frame drawn at the end of the iteration, and is not kept here.
DisplayCopyTime ==
    /\ displayTask.pc = "copyTime"
    /\ displayTask' = [displayTask EXCEPT !.pc = "take"]
    /\ UNCHANGED << timeVars, alarmVars, dataMutex,
                    alarmSem, lastClk, timeTask, buzzerTask, buttonTask,
                    buzzerPin, histVars >>

\* line 309: the mutex is obtained
DisplayTake ==
    /\ displayTask.pc = "take"
    /\ MutexTake("display")
    /\ displayTask' = [displayTask EXCEPT !.pc = "read"]
    /\ UNCHANGED << timeVars, alarmVars, alarmSem,
                    lastClk, timeTask, buzzerTask, buttonTask, buzzerPin,
                    histVars >>

\* line 309: the wait of 20 ticks ran out; isAlarm and strikes keep their
\* initial values
DisplayTimeout ==
    /\ displayTask.pc = "take"
    /\ MutexTimeout("display")
    /\ displayTask' = [displayTask EXCEPT !.pc = "render"]
    /\ UNCHANGED << timeVars, alarmVars, dataMutex,
                    alarmSem, lastClk, timeTask, buzzerTask, buttonTask,
                    buzzerPin, histVars >>

\* lines 310-312
DisplayRead ==
    /\ displayTask.pc = "read"
    /\ MutexGive("display")
    /\ displayTask' = [displayTask EXCEPT
            !.isAlarm = alarmRinging,
            !.strikes = strikeRemaining,
            !.pc = "render"]
    /\ UNCHANGED << timeVars, alarmVars, alarmSem,
                    lastClk, timeTask, buzzerTask, buttonTask, buzzerPin,
                    histVars >>

\* lines 315-341: the frame is drawn from the locals and the iteration ends
DisplayRender ==
    /\ displayTask.pc = "render"
    /\ displayTask' = DisplayIdle
    /\ UNCHANGED << timeVars, alarmVars, dataMutex,
                    alarmSem, lastClk, timeTask, buzzerTask, buttonTask,
                    buzzerPin, histVars >>

----------------------------------------------------------------------------
(* The system *)

\* timeTask's steps, its bounded waits all succeeding
TimeSteps(limit) ==
    \/ TimeTickWithin(limit)
    \/ TimeAlarmTake
    \/ TimeAlarmSet
    \/ TimeAlarmGive
    \/ TimeStrikeTake
    \/ TimeStrikeGuard
    \/ TimeStrikeSkip
    \/ TimeStrikeHour
    \/ TimeStrikeSet
    \/ TimeStrikeRelease

\* buzzerTask's steps, its bounded waits all succeeding
BuzzerSteps(pots) ==
    \/ BuzzerWake
    \/ BuzzerReadTake
    \/ BuzzerRead
    \/ BuzzerStrikeTone(pots)
    \/ BuzzerStrikeOff
    \/ BuzzerDecTake
    \/ BuzzerDec
    \/ BuzzerRingTake
    \/ BuzzerRingRead
    \/ BuzzerRingTone(pots)
    \/ BuzzerRingOff
    \/ BuzzerRingReTake
    \/ BuzzerRingReRead
    \/ BuzzerSilence

ButtonSteps ==
    \/ ButtonPoll
    \/ ButtonTake
    \/ ButtonClearRinging
    \/ ButtonClearStrikes
    \/ ButtonGive

DisplaySteps ==
    \/ DisplayCopyTime
    \/ DisplayTake
    \/ DisplayRead
    \/ DisplayRender

\* a bounded wait for dataMutex running out
Timeouts ==
    \/ TimeAlarmTimeout
    \/ TimeStrikeTimeout
    \/ BuzzerReadTimeout
    \/ BuzzerDecTimeout
    \/ BuzzerRingTimeout
    \/ BuzzerRingReTimeout
    \/ ButtonTimeout
    \/ DisplayTimeout

Next ==
    \/ TimeSteps(MaxTicks)
    \/ EncoderISR(MaxAdjusts)
    \/ BuzzerSteps(PotSamples)
    \/ ButtonSteps
    \/ DisplaySteps
    \/ Timeouts

Spec == Init /\ [][Next]_vars

\* the same system in the runs where no bounded wait runs out
NextNoTimeout ==
    \/ TimeSteps(MaxTicks)
    \/ EncoderISR(MaxAdjusts)
    \/ BuzzerSteps(PotSamples)
    \/ ButtonSteps
    \/ DisplaySteps

SpecNoTimeout == Init /\ [][NextNoTimeout]_vars

----------------------------------------------------------------------------
(* A minute and more past an hour boundary or the alarm, the encoder at rest *)

\* ticks of a run of SpecHour: past the end of the minute it starts before
HourTicks == 61 + MaxTicks

\* an hour boundary one second ahead, fresh and with the alarm unanswered;
\* the alarm one second ahead with the strikes of the hour still to play
HourScenarios ==
    { Fresh(<< 0, 59, 59 >>), AlarmUnanswered, StrikesUnplayed }

InitHour ==
    /\ \E sc \in HourScenarios : InitFor(sc)
    /\ lastClk = "HIGH"

NextHour ==
    \/ TimeSteps(HourTicks)
    \/ BuzzerSteps(PotSamples)
    \/ ButtonSteps
    \/ DisplaySteps
    \/ Timeouts

SpecHour == InitHour /\ [][NextHour]_vars

----------------------------------------------------------------------------
(* A whole day of timeTask alone *)

SecondsPerDay == 24 * 60 * 60

DayStarts == { << 0, 0, 0 >>, << 5, 29, 50 >>, << 12, 30, 30 >>,
               << 23, 59, 59 >> }

InitDay ==
    /\ \E st \in DayStarts : InitFor(Fresh(st))
    /\ lastClk = "HIGH"

NextDay == TimeSteps(SecondsPerDay)

SpecDay == InitDay /\ [][NextDay]_vars

----------------------------------------------------------------------------
(* The encoder alone, from every hour and minute *)

\* minute steps of a behaviour of SpecAdjust: one forward and one backward
AdjustTurns == 2

AdjustSeconds == {0, 30, 59}

InitAdjust ==
    /\ \E h \in 0..23, m \in 0..59, s \in AdjustSeconds :
          InitFor(Fresh(<< h, m, s >>))
    /\ lastClk \in Levels

NextAdjust == EncoderISR(AdjustTurns)

SpecAdjust == InitAdjust /\ [][NextAdjust]_vars

----------------------------------------------------------------------------
(* timeTask and the encoder, from every hour and minute *)

\* the seconds a run of SpecClock starts at: a minute boundary is within
\* MaxTicks of the last two
ClockSeconds == {0, 58, 59}

InitClock ==
    /\ \/ \E h \in 0..23, m \in 0..59, s \in ClockSeconds :
             InitFor(Fresh(<< h, m, s >>))
       \/ InitFor(AlarmUnanswered)
    /\ lastClk \in Levels

NextClock ==
    \/ TimeSteps(MaxTicks)
    \/ EncoderISR(MaxAdjusts)

SpecClock == InitClock /\ [][NextClock]_vars

----------------------------------------------------------------------------
(* No stop press and no bounded wait running out *)

NextStrike ==
    \/ TimeSteps(MaxTicks)
    \/ EncoderISR(MaxAdjusts)
    \/ BuzzerSteps(PotSamples)
    \/ DisplaySteps

SpecStrike == Init /\ [][NextStrike]_vars

----------------------------------------------------------------------------
(* timeTask and buzzerTask over the whole range of the potentiometer *)

InitVolume ==
    /\ \E sc \in { Fresh(<< 5, 29, 59 >>), Fresh(<< 0, 59, 59 >>),
                   AlarmUnanswered } :
          InitFor(sc)
    /\ lastClk = "HIGH"

NextVolume ==
    \/ TimeSteps(MaxTicks)
    \/ BuzzerSteps(0..ADC_MAX)

SpecVolume == InitVolume /\ [][NextVolume]_vars

----------------------------------------------------------------------------
(* The runs in which no bounded wait runs out, under the scheduling        *)
(* FreeRTOS gives the tasks                                                *)

\* buzzerTask's bounded takes of dataMutex
BuzzerTakes ==
    \/ BuzzerReadTake
    \/ BuzzerDecTake
    \/ BuzzerRingTake
    \/ BuzzerRingReTake

\* the steps a task takes while it holds dataMutex
HolderSteps ==
    \/ TimeAlarmSet
    \/ TimeStrikeGuard
    \/ TimeStrikeSkip
    \/ TimeStrikeHour
    \/ TimeStrikeSet
    \/ TimeStrikeRelease
    \/ BuzzerRead
    \/ BuzzerDec
    \/ BuzzerRingRead
    \/ BuzzerRingReRead
    \/ ButtonClearRinging
    \/ ButtonClearStrikes
    \/ ButtonGive
    \/ DisplayRead

\* The scheduling of the runs of SpecNoTimeout.  A task that
\* can step is scheduled in the end, every other task being blocked in
\* vTaskDelay or in a take most of the time (weak fairness of buzzerTask and
\* of the holder of the mutex); a task waiting in xSemaphoreTake is on the
\* mutex's waiting list and is handed the mutex when it is given (strong
\* fairness of buzzerTask's takes).
Fairness ==
    /\ WF_vars(BuzzerSteps(PotSamples))
    /\ WF_vars(HolderSteps)
    /\ SF_vars(BuzzerTakes)

\* timeTask, of the highest priority and alone on core 0, reaches the give of
\* line 182 once it has set alarmRinging
FairnessClock ==
    /\ Fairness
    /\ WF_vars(TimeAlarmGive)

SpecFairClock == Init /\ [][NextNoTimeout]_vars /\ FairnessClock

----------------------------------------------------------------------------
(* The tasks with their bounded waits, the encoder at rest, under the      *)
(* scheduling FreeRTOS gives buzzerTask                                    *)

NextTasks ==
    \/ TimeSteps(MaxTicks)
    \/ BuzzerSteps(PotSamples)
    \/ ButtonSteps
    \/ DisplaySteps
    \/ Timeouts

SpecTasks == Init /\ [][NextTasks]_vars

\* buzzerTask's bounded waits running out
BuzzerTimeouts ==
    \/ BuzzerReadTimeout
    \/ BuzzerDecTimeout
    \/ BuzzerRingTimeout
    \/ BuzzerRingReTimeout

\* buzzerTask is never blocked without bound outside its wait for alarmSem:
\* its delays and its waits for dataMutex all end, and it is then scheduled
\* (weak fairness of its steps, a wait ending either way); the holder of the
\* mutex is scheduled too
FairnessTasks ==
    /\ WF_vars(BuzzerSteps(PotSamples) \/ BuzzerTimeouts)
    /\ WF_vars(HolderSteps)

SpecTasksFair == Init /\ [][NextTasks]_vars /\ FairnessTasks

\* and, besides, a task waiting in xSemaphoreTake is on the mutex's waiting
\* list and is handed the mutex when it is given: a take of buzzerTask that
\* is possible again and again succeeds in the end (strong fairness of its
\* takes); a wait during all of which another task holds the mutex still
\* runs out
FairnessTakes ==
    /\ FairnessTasks
    /\ SF_vars(BuzzerTakes)

SpecTasksStrong == Init /\ [][NextTasks]_vars /\ FairnessTakes

----------------------------------------------------------------------------
(* Claims *)

\* a task is at a statement that reads alarmRinging or strikeRemaining
ReadsAlarmState ==
    \/ timeTask.pc \in {"strikeGuard"}
    \/ buzzerTask.pc \in {"read", "dec", "ringRead", "ringReRead"}
    \/ displayTask.pc = "read"

\* C1: a stop press that obtained dataMutex clears alarmRinging and
\* strikeRemaining as one step for every observer: from the take to the give
\* the button task is the holder, and while the pair is half cleared
\* (alarmRinging already false, strikeRemaining not yet 0) no task is at a
\* statement that reads the alarm state.
C1_StopIsAtomic ==
    /\ buttonTask.pc \in {"clearRinging", "clearStrikes", "give"}
          => dataMutex = "button"
    /\ buttonTask.pc = "clearStrikes" => ~ReadsAlarmState

\* C1 witness: the stop press holds the mutex with the alarm ringing and
\* strikes outstanding, while the display and the buzzer wait for the mutex
C1_Witness ==
    /\ buttonTask.pc = "clearRinging"
    /\ dataMutex = "button"
    /\ alarmRinging
    /\ strikeRemaining > 0
    /\ displayTask.pc = "take"
    /\ buzzerTask.pc = "decTake"

\* C2: exactly one raise of the alarm for each time the time of day passes
\* through the alarm instant: once timeTask has finished a tick and the time
\* of day is off the alarm instant, there have been as many raises as passes.
C2_AlarmOncePerPass ==
    (timeTask.pc = "poll" /\ ~AtAlarm(hourNow, minuteNow, secondNow))
        => alarmRaises = alarmPasses

\* the hour as a 12-hour clock face shows it
HourOnFace(h) == IF h % 12 = 0 THEN 12 ELSE h % 12

\* C4: the strike count armed at a tick whose copy is (h, 0, 0) is h on the
\* 12-hour face.
C4_StrikeCountOfCopiedHour ==
    timeTask.pc = "strikeRelease" => strikeRemaining = HourOnFace(timeTask.h)

\* C5: strikeRemaining never goes below 0, and the only step that raises it
\* is timeTask's arming at a top-of-hour tick, from strikeRemaining = 0 with
\* alarmRinging false.
C5_StrikesOnlyArmedFromClear ==
    [][ /\ strikeRemaining' >= 0
        /\ strikeRemaining' > strikeRemaining =>
              /\ strikeRemaining = 0
              /\ ~alarmRinging
              /\ timeTask.pc = "strikeSet"
              /\ timeTask.m = 0 /\ timeTask.s = 0 ]_vars

\* C5 witness: an armed strike sequence about to be decremented, the encoder
\* having stepped the minute after the tick that armed it
C5_Witness ==
    /\ strikeRemaining > 0
    /\ turns # << >>
    /\ buzzerTask.pc = "dec"
    /\ buzzerTask.strikes > 0

Now == << hourNow, minuteNow, secondNow >>

\* C6: from every start time, 86,400 one-second advances bring the time of
\* day back to the start time, and no smaller positive number does.
C6_DayRoundTrip ==
    /\ ticks = SecondsPerDay => Now = startTime
    /\ (ticks > 0 /\ ticks < SecondsPerDay) => Now # startTime

\* C6 witness: a whole day after the sketch's own start time
C6_Witness ==
    /\ ticks = SecondsPerDay
    /\ startTime = << 5, 29, 50 >>
    /\ Now = << 5, 29, 50 >>

MinutesPerDay == 24 * 60

\* forward steps minus backward steps
TurnOffset ==
    Cardinality({i \in DOMAIN turns : turns[i] = "forward"})
      - Cardinality({i \in DOMAIN turns : turns[i] = "backward"})

\* C7: a forward step moves (hour, minute) one minute ahead modulo 24 hours,
\* a backward step one minute back, each setting the second to 0; 23:59
\* forward is 00:00:00, 00:00 backward is 23:59:00, and a forward step
\* followed by a backward step restores (hour, minute).  A run of the handler
\* that sees no rising edge of CLK leaves the time alone.
C7_MinuteSteps ==
    /\ turns = << >> => Now = startTime
    /\ turns # << >> =>
          /\ secondNow = 0
          /\ hourNow \in 0..23
          /\ minuteNow \in 0..59
          /\ hourNow * 60 + minuteNow =
                (startTime[1] * 60 + startTime[2] + TurnOffset + MinutesPerDay)
                    % MinutesPerDay
    /\ (turns = << "forward" >> /\ startTime[1] = 23 /\ startTime[2] = 59)
          => Now = << 0, 0, 0 >>
    /\ (turns = << "backward" >> /\ startTime[1] = 0 /\ startTime[2] = 0)
          => Now = << 23, 59, 0 >>
    /\ turns = << "forward", "backward" >>
          => (hourNow = startTime[1] /\ minuteNow = startTime[2])

\* C7 witness: forward over midnight and back again
C7_Witness ==
    /\ startTime = << 23, 59, 30 >>
    /\ turns = << "forward", "backward" >>
    /\ Now = << 23, 59, 0 >>

\* buzzerTask is sounding the pulse it computed from buzzerTask.potVal
Pulse == buzzerTask.pc \in {"strikeOn", "ringOn"}

\* the tone of the loop buzzerTask is in, for a volume input
LoopTone(v) == IF buzzerTask.pc = "strikeOn" THEN StrikeTone(v) ELSE RingTone(v)

\* C8 as stated: in both loops a volume input at or below the mute threshold
\* gives silence, the maximum input gives BUZZER_FREQ_MAX, audible
\* frequencies lie in the band and do not decrease as the input grows.
C8_MuteAtOrBelowThreshold ==
    Pulse =>
        LET v == buzzerTask.potVal IN
        /\ v <= POT_MIN_THRESHOLD => buzzerPin = 0
        /\ v = ADC_MAX => buzzerPin = BUZZER_FREQ_MAX
        /\ v > POT_MIN_THRESHOLD =>
              /\ buzzerPin \in BUZZER_FREQ_MIN..BUZZER_FREQ_MAX
              /\ \A v2 \in v..ADC_MAX : buzzerPin <= LoopTone(v2)

\* C8 amended: the buzzer is silent for inputs strictly below the threshold;
\* the threshold itself is audible, and so is every input above it.
C8_MuteBelowThreshold ==
    Pulse =>
        LET v == buzzerTask.potVal IN
        /\ v < POT_MIN_THRESHOLD => buzzerPin = 0
        /\ v = ADC_MAX => buzzerPin = BUZZER_FREQ_MAX
        /\ v >= POT_MIN_THRESHOLD =>
              /\ buzzerPin \in BUZZER_FREQ_MIN..BUZZER_FREQ_MAX
              /\ \A v2 \in v..ADC_MAX : buzzerPin <= LoopTone(v2)

\* C8 witness: a strike sounding at the threshold itself
C8_Witness ==
    /\ buzzerTask.pc = "strikeOn"
    /\ buzzerTask.potVal = POT_MIN_THRESHOLD
    /\ buzzerPin > 0

\* C9: alarmSem holds at most one pending signal: however many raises are
\* not yet consumed, the count is 1, and it is 0 once buzzerTask has consumed
\* them, so that its next wait blocks until a further raise.
C9_SingleSlot ==
    /\ alarmSem \in {0, 1}
    /\ alarmSem = IF pendingRaises > 0 THEN 1 ELSE 0

\* C9 witness: two raises pending as one signal, buzzerTask still waiting
C9_Witness ==
    /\ pendingRaises >= 2
    /\ alarmSem = 1
    /\ buzzerTask.pc = "wait"

\* buzzerTask is blocked on alarmSem with the buzzer silent
BuzzerBlocked == buzzerTask.pc = "wait" /\ alarmSem = 0 /\ buzzerPin = 0

\* timeTask is setting alarmRinging or arming strikeRemaining
Retriggered == timeTask.pc \in {"alarmSet", "strikeSet"}

RingReReadSkipped ==
    /\ buzzerTask.pc = "ringReTake"
    /\ buzzerTask'.pc \notin {"ringReTake", "ringReRead"}

InMinuteOf(skip) == skip > 0 /\ ticks' < skip + 60

\* C11 as stated: when timeTask's wait for dataMutex runs out in the alarm
\* check or in the strike check, timeTask changes neither alarmRinging nor
\* strikeRemaining for that condition and does not give alarmSem for it, at
\* that tick and at every later tick of the same minute.
C11_TimeoutSkipsCondition ==
    [][ /\ InMinuteOf(hist'.alarmSkip) =>
              /\ alarmRinging' => alarmRinging
              /\ alarmRaises' = alarmRaises
        /\ InMinuteOf(hist'.strikeSkip) =>
              /\ strikeRemaining' <= strikeRemaining
              /\ timeTask.pc = "strikeSet" => alarmSem' = alarmSem ]_vars

\* C11 amended: a wait running out in the strike check skips the condition
\* whole, with no later tick of the minute arming the strikes; a wait running
\* out in the alarm check leaves alarmRinging as it is, for the rest of the
\* minute, but alarmSem is still given, once, at that tick (line 182).
C11_TimeoutStillGivesAlarmSem ==
    [][ /\ InMinuteOf(hist'.alarmSkip) =>
              /\ alarmRinging' => alarmRinging
              /\ alarmRaises' # alarmRaises =>
                    /\ timeTask.pc = "alarmGive"
                    /\ ticks = hist.alarmSkip
              /\ (timeTask.pc = "alarmGive" /\ timeTask' # timeTask) =>
                    /\ alarmRaises' = alarmRaises + 1
                    /\ alarmSem' = 1
        /\ InMinuteOf(hist'.strikeSkip) =>
              /\ strikeRemaining' <= strikeRemaining
              /\ timeTask.pc = "strikeSet" => alarmSem' = alarmSem ]_vars

\* C11 witness: the wait of the alarm check ran out at the tick of the
\* alarm; the minute is over, the alarm is not ringing, and alarmSem was
\* given once
C11_Witness ==
    /\ hist.alarmSkip = 1
    /\ hist.strikeSkip = 0
    /\ ticks = 60
    /\ ~alarmRinging
    /\ alarmRaises = 1

\* the tasks that are at a statement between a successful take of dataMutex
\* and the give that follows it
InRegion ==
    (IF timeTask.pc \in {"alarmSet", "strikeGuard", "strikeHour",
                         "strikeSet", "strikeRelease"}
     THEN {"time"} ELSE {})
    \cup (IF buzzerTask.pc \in {"read", "dec", "ringRead", "ringReRead"}
          THEN {"buzzer"} ELSE {})
    \cup (IF buttonTask.pc \in {"clearRinging", "clearStrikes", "give"}
          THEN {"button"} ELSE {})
    \cup (IF displayTask.pc = "read" THEN {"display"} ELSE {})

\* one run of encoderISR has taken place
EncoderStep == turns' # turns \/ lastClk' # lastClk

\* C12: the statements of timeTask, buzzerTask, buttonTask and displayTask
\* that read or write alarmRinging or strikeRemaining are executed by the
\* holder of dataMutex; at most one task is between a take and its give;
\* every change of alarmRinging or strikeRemaining is made by the holder; and
\* encoderISR neither takes dataMutex nor changes the alarm state.
C12_AlarmStateUnderMutex ==
    /\ [] /\ Cardinality(InRegion) <= 1
          /\ InRegion = IF dataMutex = "free" THEN {} ELSE {dataMutex}
    /\ [][ /\ alarmRinging' # alarmRinging =>
                  /\ dataMutex \in {"time", "button"}
                  /\ dataMutex \in InRegion
           /\ strikeRemaining' # strikeRemaining =>
                  /\ dataMutex \in {"time", "buzzer", "button"}
                  /\ dataMutex \in InRegion
           /\ EncoderStep => UNCHANGED << alarmVars, dataMutex >> ]_vars

\* C12 witness: buzzerTask, the holder, is about to decrement strikeRemaining
\* while buttonTask and displayTask wait for the mutex, the encoder having
\* stepped the minute
C12_Witness ==
    /\ buzzerTask.pc = "dec"
    /\ dataMutex = "buzzer"
    /\ strikeRemaining > 0
    /\ buttonTask.pc = "take"
    /\ displayTask.pc = "take"
    /\ turns # << >>

\* C13: between the critical sections of mux the time of day is valid, and
\* so is the copy timeTask evaluates, for every interleaving of one-second
\* advances with forward and backward minute steps.
C13_TimeOfDayValid ==
    /\ hourNow \in 0..23
    /\ minuteNow \in 0..59
    /\ secondNow \in 0..59
    /\ timeTask.h \in 0..23
    /\ timeTask.m \in 0..59
    /\ timeTask.s \in 0..59

\* C13 witness: a tick over midnight, a minute step back over midnight, and
\* a further tick
C13_Witness ==
    /\ startTime = << 23, 59, 59 >>
    /\ ticks = 2
    /\ turns = << "backward" >>
    /\ Now = << 23, 59, 1 >>

\* buzzerTask's positions in the striking loop, and from the end of the
\* striking loop to the end of the wake-up
StrikingPcs == {"strikeTone", "strikeOn", "decTake", "dec"}
AfterStrikingPcs == {"ringTake", "ringRead", "ringTone", "ringOn",
                     "ringReTake", "ringReRead", "silence"}

\* the order of the stages within one wake-up: the striking loop is left
\* with the local counter at 0; nothing after it leads back to the read of
\* the wake-up or to the striking loop; the wake-up ends in the wait for
\* alarmSem, and a new one starts by consuming alarmSem
StageOrder ==
    /\ (buzzerTask'.pc = "ringTake" /\ buzzerTask.pc # "ringTake")
          => buzzerTask'.strikes = 0
    /\ (buzzerTask.pc \in AfterStrikingPcs /\ buzzerTask' # buzzerTask)
          => buzzerTask'.pc \in AfterStrikingPcs \cup {"wait"}
    /\ (buzzerTask.pc = "wait" /\ buzzerTask' # buzzerTask)
          => alarmSem = 1 /\ alarmSem' = 0 /\ buzzerTask'.pc = "readTake"

\* C14 as stated: the stages of a wake-up come in the order Idle, Striking,
\* Ringing, Idle, and when alarmRinging and strikeRemaining > 0 both hold at
\* the wake-up, a ring pulse sounds only after the striking loop has played
\* all of those strikes (a stop press aside).
C14_StrikesBeforeRinging ==
    /\ [][StageOrder]_vars
    /\ [] ( ( /\ buzzerTask.pc = "ringOn"
              /\ hist.wakeRinging
              /\ hist.wakeStrikes > 0
              /\ ~hist.stopped )
            => hist.drained )

\* C14 amended: the same, for the wake-ups whose read of the alarm state
\* (lines 217-221) obtained dataMutex; when that wait runs out the local
\* counter stays 0, the striking loop is skipped and the ring pulses start
\* with the strikes unplayed.
C14_StrikesBeforeRingingIfRead ==
    /\ [][StageOrder]_vars
    /\ [] ( ( /\ buzzerTask.pc = "ringOn"
              /\ hist.wakeRinging
              /\ hist.wakeStrikes > 0
              /\ hist.wakeRead
              /\ ~hist.stopped )
            => hist.drained )

\* C14 witness: the first ring pulse of a wake-up that found the alarm
\* ringing and a strike pending, and played the strike first
C14_Witness ==
    /\ buzzerTask.pc = "ringOn"
    /\ hist.wakeRinging
    /\ hist.wakeStrikes > 0
    /\ hist.wakeRead
    /\ ~hist.stopped
    /\ hist.drained
    /\ buzzerPin > 0

\* the pulse buzzerTask has started and not yet accounted for at line 240
PulseInProgress == IF buzzerTask.pc \in {"strikeOn", "decTake", "dec"} THEN 1 ELSE 0

\* C15: with no stop press and no wait running out, the strikes timeTask
\* armed stay untouched with a wake-up pending until buzzerTask is in its
\* striking loop; in the loop, strikeRemaining is the armed count less the
\* pulses completed; each pass of line 240 takes exactly 1 off; and the loop
\* is left with strikeRemaining = 0 after exactly as many pulses as were
\* armed.
C15_PlaysArmedCount ==
    /\ [] /\ (strikeRemaining > 0 /\ buzzerTask.pc \notin StrikingPcs) =>
                /\ strikeRemaining = hist.armed
                /\ alarmSem = 1 \/ buzzerTask.pc \in {"readTake", "read"}
          /\ buzzerTask.pc \in StrikingPcs =>
                /\ hist.armed > 0
                /\ strikeRemaining + hist.pulses - PulseInProgress = hist.armed
                /\ buzzerTask.strikes = strikeRemaining
    /\ [][ /\ (buzzerTask.pc = "dec" /\ buzzerTask' # buzzerTask) =>
                  strikeRemaining' = strikeRemaining - 1
           /\ strikeRemaining' < strikeRemaining => buzzerTask.pc = "dec"
           /\ (buzzerTask.pc \in StrikingPcs /\ buzzerTask'.pc = "ringTake") =>
                  /\ strikeRemaining' = 0
                  /\ hist.pulses = hist.armed ]_vars

\* C15 witness: the twelfth pulse of twelve armed strikes is over and its
\* decrement is due
C15_Witness ==
    /\ buzzerTask.pc = "dec"
    /\ hist.armed = 12
    /\ hist.pulses = 12
    /\ strikeRemaining = 1

\* C16: after each strike pulse, buzzerTask holding dataMutex takes 1 off
\* strikeRemaining unless it is 0 and loads the local counter from it; when
\* the wait for dataMutex runs out, strikeRemaining is left alone and the
\* local counter alone goes down by 1; either way the striking loop is left
\* in the end.
C16_DecrementOrLocalFallback ==
    /\ [][ /\ (buzzerTask.pc = "dec" /\ buzzerTask' # buzzerTask) =>
                  /\ dataMutex = "buzzer"
                  /\ strikeRemaining' =
                        IF strikeRemaining > 0 THEN strikeRemaining - 1 ELSE 0
                  /\ strikeRemaining' >= 0
                  /\ buzzerTask'.strikes = strikeRemaining'
           /\ (buzzerTask.pc = "decTake" /\ buzzerTask'.pc \notin {"decTake", "dec"}) =>
                  /\ dataMutex \notin {"free", "buzzer"}
                  /\ strikeRemaining' = strikeRemaining
                  /\ buzzerTask'.strikes = buzzerTask.strikes - 1
                  /\ buzzerTask'.strikes >= 0 ]_vars
    /\ (buzzerTask.pc \in StrikingPcs) ~> (buzzerTask.pc \notin StrikingPcs)

\* C16 witness: the wait ran out after a pulse, the local counter is one
\* below strikeRemaining, and the next pulse is due
C16_Witness ==
    /\ buzzerTask.pc = "strikeTone"
    /\ hist.pulses = 1
    /\ strikeRemaining = 2
    /\ buzzerTask.strikes = 1

\* buzzerTask's positions in the ringing loop
RingingPcs == {"ringTone", "ringOn", "ringReTake", "ringReRead"}

\* C17: buzzerTask leaves the ringing loop only by the step that reads
\* alarmRinging as false while it holds dataMutex; when the wait of line 270
\* runs out it stays in the loop, stillRinging still true, for another
\* pulse; and in the loop the last value read is true.
C17_RingingEndsOnReadFalse ==
    /\ [][ /\ (buzzerTask.pc \in RingingPcs /\ buzzerTask'.pc \notin RingingPcs) =>
                  /\ buzzerTask.pc = "ringReRead"
                  /\ dataMutex = "buzzer"
                  /\ ~alarmRinging
                  /\ ~buzzerTask'.stillRinging
                  /\ buzzerTask'.pc = "silence"
           /\ (buzzerTask.pc = "ringReTake"
                 /\ buzzerTask'.pc \notin {"ringReTake", "ringReRead"}) =>
                  /\ dataMutex \notin {"free", "buzzer"}
                  /\ buzzerTask'.pc = "ringTone"
                  /\ buzzerTask'.stillRinging ]_vars
    /\ [] (buzzerTask.pc \in RingingPcs => buzzerTask.stillRinging)

\* C17 witness: the stop press has cleared alarmRinging and still holds the
\* mutex, and buzzerTask, its re-read not yet done, is in the loop for
\* another pulse
C17_Witness ==
    /\ buzzerTask.pc = "ringTone"
    /\ buzzerTask.stillRinging
    /\ ~alarmRinging
    /\ hist.stopped
    /\ dataMutex = "button"

\* buzzerTask is blocked on alarmSem with work outstanding
BlockedWithWork ==
    /\ buzzerTask.pc = "wait"
    /\ alarmSem = 0
    /\ alarmRinging \/ strikeRemaining > 0

\* C18: with no wait running out and under fair scheduling, a set
\* alarmRinging leads to a ring pulse unless it is cleared first, armed
\* strikes lead to a strike pulse unless they are cleared first, and
\* buzzerTask does not stay blocked on alarmSem with alarmRinging set or
\* strikeRemaining > 0.
C18_NoLostWakeUp ==
    /\ alarmRinging ~> (buzzerTask.pc \in {"ringTone", "ringOn"} \/ ~alarmRinging)
    /\ (strikeRemaining > 0) ~>
          (buzzerTask.pc \in {"strikeTone", "strikeOn"} \/ strikeRemaining = 0)
    /\ []<>~BlockedWithWork

\* C18 witness: strikes were armed while buzzerTask was past the read of a
\* wake-up that found nothing to play; the give is pending for its next wait
C18_Witness ==
    /\ buzzerTask.pc = "ringTake"
    /\ hist.wakeRead
    /\ hist.wakeStrikes = 0
    /\ strikeRemaining > 0
    /\ alarmSem = 1

\* a step that runs a critical section of mux: the tick of lines 159-172, a
\* run of encoderISR, the re-read of the hour (190-192), copyTime (74-76)
MuxSection ==
    \/ ticks' # ticks
    \/ EncoderStep
    \/ timeTask.pc = "strikeHour" /\ timeTask'.pc # "strikeHour"
    \/ displayTask.pc = "copyTime" /\ displayTask'.pc # "copyTime"

\* C19: no critical section of mux contains a take or a give of dataMutex,
\* and the only one run by a holder of dataMutex is timeTask's re-read of
\* the hour, nested inside its hold; every task that is not buzzerTask
\* waiting for alarmSem can take a step: a task waiting for dataMutex either
\* obtains it or has its wait run out.
C19_OnlyBuzzerBlocks ==
    /\ [][ MuxSection =>
              /\ dataMutex' = dataMutex
              /\ (timeTask.pc = "strikeHour" /\ timeTask'.pc # "strikeHour")
                    => dataMutex = "time" ]_vars
    /\ [] /\ timeTask.pc # "poll" =>
                ENABLED (TimeSteps(MaxTicks) \/ TimeAlarmTimeout
                            \/ TimeStrikeTimeout)
          /\ buzzerTask.pc # "wait" =>
                ENABLED (BuzzerSteps(PotSamples) \/ BuzzerTimeouts)
          /\ ENABLED (ButtonSteps \/ ButtonTimeout)
          /\ ENABLED (DisplaySteps \/ DisplayTimeout)

\* C19 witness: displayTask holds dataMutex while timeTask, buzzerTask and
\* buttonTask all wait for it, the encoder having stepped the minute
C19_Witness ==
    /\ dataMutex = "display"
    /\ timeTask.pc = "strikeTake"
    /\ buzzerTask.pc = "readTake"
    /\ buttonTask.pc = "take"
    /\ turns # << >>

\* C20 as stated: timeTask evaluates the guard of line 188 as the holder of
\* dataMutex, and re-reads the hour under mux once dataMutex is given back.
C20_HourReadAfterRelease ==
    /\ timeTask.pc = "strikeGuard" => dataMutex = "time"
    /\ timeTask.pc = "strikeHour" => dataMutex # "time"

\* C20 amended: timeTask evaluates the guard as the holder of dataMutex and
\* is still the holder when it re-reads the hour under mux (190-192) and when
\* it sets strikeRemaining from it; dataMutex is given back after that, at
\* line 198.
C20_HourReadUnderMutex ==
    /\ timeTask.pc = "strikeGuard" => dataMutex = "time"
    /\ timeTask.pc \in {"strikeHour", "strikeSet", "strikeRelease"}
          => dataMutex = "time"
    /\ timeTask.pc \in {"strikeSet", "strikeRelease"}
          => timeTask.hh \in 0..11
    /\ timeTask.pc = "strikeRelease"
          => strikeRemaining = StrikeCount(timeTask.hh)

\* C20 witness: the hour re-read under the mutex differs from the hour of the
\* tick's copy, the encoder having stepped back over the hour boundary, while
\* the stop press waits for the mutex
C20_Witness ==
    /\ timeTask.pc = "strikeSet"
    /\ dataMutex = "time"
    /\ timeTask.hh # timeTask.h % 12
    /\ buttonTask.pc = "take"

====
